---- MODULE Spec2Model ----
(***************************************************************************)
(* Model of src/parse_args.rs: CliArgs::new turns the raw clap Args into   *)
(* a CliArgs value, or terminates the process with one diagnostic.         *)
(* Strings that the code inspects character by character (the -m tokens)   *)
(* are sequences of one-character strings; Option<T> is a sequence of      *)
(* length 0 (None) or 1 (Some).                                            *)
(***************************************************************************)
EXTENDS Integers, Sequences, FiniteSets, TLC

VARIABLES args, env, home_dir, pc, logs_dir, base_url_map, idx, stderr, exit_code, result

vars == <<args, env, home_dir, pc, logs_dir, base_url_map, idx, stderr, exit_code, result>>

None == << >>

Some(x) == <<x>>

\* ---------------------------------------------------------------- bounds
MaxPieces == 5

MaxTokens == 2

\* ------------------------------------------------------- program constants
DefaultInterval == 1000

SplitLimitOffByOne == 3 + 1

SplitLimit == 3

Delim == ";"

KwName == <<"n", "a", "m", "e">>

KwImage == <<"i", "m", "a", "g", "e">>

KwLabel == <<"l", "a", "b", "e", "l">>

TypeMsg == "Couldn't parse type, \"-m\" argument needs to be in the format \"name|image|label;value;base_url\""

UrlMsgSameAsType == "Couldn't parse type, \"-m\" argument needs to be in the format \"name|image|label;value;base_url\""

UrlMsg == "Couldn't parse url, \"-m\" argument needs to be in the format \"name|image|label;value;input_url\""

IntervalMsg == "\"-d\" argument needs to be greater than 0"

ENV_KEY == "ENV_KEY"

ENV_VALUE == "ENV_VALUE"

\* ------------------------------------------------------------ str::splitn
\* Position of the first delimiter of s at or after position i, 0 if none.
RECURSIVE find_from(_, _)
find_from(s, i) ==
    IF i > Len(s) THEN 0
    ELSE IF s[i] = Delim THEN i
    ELSE find_from(s, i + 1)

splitn(n, s) == [count |-> n, rest |-> s, finished |-> FALSE]

\* SplitN::next: the last permitted item is the whole remainder.
split_next(it) ==
    IF it.count = 0 \/ it.finished
    THEN [item |-> None, it |-> it]
    ELSE IF it.count = 1
    THEN [item |-> Some(it.rest),
          it |-> [count |-> 0, rest |-> << >>, finished |-> TRUE]]
    ELSE LET p == find_from(it.rest, 1)
         IN IF p = 0
            THEN [item |-> Some(it.rest),
                  it |-> [count |-> it.count - 1, rest |-> << >>, finished |-> TRUE]]
            ELSE [item |-> Some(SubSeq(it.rest, 1, p - 1)),
                  it |-> [count |-> it.count - 1,
                          rest |-> SubSeq(it.rest, p + 1, Len(it.rest)),
                          finished |-> FALSE]]

\* ----------------------------------------------- parse_base_url_map_input
IsPrefix(p, s) == Len(p) <= Len(s) /\ SubSeq(s, 1, Len(p)) = p

is_type_starts_with(value_type, kw) == value_type # None /\ IsPrefix(kw, value_type[1])

is_type(value_type, kw) == value_type = Some(kw)

no_selector_by_type(value_type, name, image, label) ==
    ~(is_type(value_type, KwName) \/ is_type(value_type, KwImage) \/ is_type(value_type, KwLabel))

no_selector_type_missing(value_type, name, image, label) == value_type = None

no_selector(value_type, name, image, label) == name = None /\ image = None /\ label = None

\* `if value_type == Some(kw) { field = split.next() }`
take_if(cond, it) ==
    IF cond THEN split_next(it) ELSE [item |-> None, it |-> it]

parse_base_url_map_input(input) ==
    LET split == splitn(SplitLimit, input)
        r0 == split_next(split)
        value_type == r0.item
        rn == take_if(is_type(value_type, KwName), r0.it)
        ri == take_if(is_type(value_type, KwImage), rn.it)
        rl == take_if(is_type(value_type, KwLabel), ri.it)
        name == rn.item
        image == ri.item
        label == rl.item
        rb == split_next(rl.it)
    IN IF no_selector(value_type, name, image, label)
       THEN [exit |-> Some(1), error |-> Some(TypeMsg), value |-> None]
       ELSE IF rb.item = None
       THEN [exit |-> Some(1), error |-> Some(UrlMsg), value |-> None]
       ELSE [exit |-> None, error |-> None,
             value |-> Some([name |-> name, image |-> image, label |-> label,
                             base_url |-> rb.item[1]])]

\* --------------------------------------------------- check_if_in_container
\* std::env::var yields Ok(value), or Err when the variable is unset or not unicode.
env_var(e, key) == IF e[key].state = "unicode" THEN Some(e[key].value) ELSE None

check_if_in_container_any_value(e) == env_var(e, ENV_KEY) # None

check_if_in_container(e) ==
    LET v == env_var(e, ENV_KEY)
    IN IF v # None /\ v[1] = ENV_VALUE THEN TRUE ELSE FALSE

\* ------------------------------------------------------------ CliArgs::new
resolve_logs_dir(save_dir, home) ==
    IF save_dir = None THEN home ELSE Some(save_dir[1])

collect_prepend(acc, item) == <<item>> \o acc

collect(acc, item) == Append(acc, item)

interval_invalid_below_1000(d) == d < 1000

interval_invalid(d) == d = 0

SelfNoGuiInversion(a, dir, map, in_cont) ==
    [color |-> a.color, docker_interval |-> a.docker_interval, use_cli |-> a.use_cli,
     gui |-> a.gui, host |-> a.host, in_container |-> in_cont, save_dir |-> dir,
     raw |-> a.raw, show_self |-> ~a.show_self, timestamp |-> ~a.timestamp,
     base_url_map |-> map]

Self(a, dir, map, in_cont) ==
    [color |-> a.color, docker_interval |-> a.docker_interval, use_cli |-> a.use_cli,
     gui |-> ~a.gui, host |-> a.host, in_container |-> in_cont, save_dir |-> dir,
     raw |-> a.raw, show_self |-> ~a.show_self, timestamp |-> ~a.timestamp,
     base_url_map |-> map]

\* Statement order of CliArgs::new after Args::parse().
StepsIntervalFirst == <<"logs_dir", "docker_interval", "base_url_map", "Self">>

Steps == <<"logs_dir", "base_url_map", "docker_interval", "Self">>

Following(step) ==
    LET k == CHOOSE i \in 1..Len(Steps) : Steps[i] = step
    IN IF k = Len(Steps) THEN "returned" ELSE Steps[k + 1]

\* ---------------------------------------------------------------- inputs
Pieces == {KwName, KwImage, KwLabel, <<";">>, <<"f">>, <<"x">>}

RECURSIVE TokensUpTo(_)
TokensUpTo(n) ==
    IF n = 0 THEN {<< >>}
    ELSE LET prev == TokensUpTo(n - 1)
         IN prev \cup {t \o p : t \in prev, p \in Pieces}

SampleTokens ==
    { KwName \o <<";", "f", ";", "x">>,
      KwImage \o <<";", ";", "x", ";", "x">>,
      <<"f", ";">> \o KwName \o <<";", "x">>,
      KwLabel \o <<";", "f">> }

RECURSIVE SeqsUpTo(_, _)
SeqsUpTo(S, n) ==
    IF n = 0 THEN {<< >>}
    ELSE LET prev == SeqsUpTo(S, n - 1)
         IN prev \cup {Append(q, t) : q \in prev, t \in S}

EnvVar == [state : {"unset", "not_unicode"}, value : {""}]
          \cup [state : {"unicode"}, value : {ENV_VALUE, "env_value"}]

Flags == {f \in [timestamp : BOOLEAN, color : BOOLEAN, raw : BOOLEAN,
                 show_self : BOOLEAN, gui : BOOLEAN, use_cli : BOOLEAN] :
            ~(f.color /\ f.raw)}

MkArgs(f, d, host, save_dir, map) ==
    [docker_interval |-> d, timestamp |-> f.timestamp, color |-> f.color, raw |-> f.raw,
     show_self |-> f.show_self, gui |-> f.gui, host |-> host, use_cli |-> f.use_cli,
     save_dir |-> save_dir, base_url_map |-> map]

DefaultFlags == [timestamp |-> FALSE, color |-> FALSE, raw |-> FALSE,
                 show_self |-> FALSE, gui |-> FALSE, use_cli |-> FALSE]

Started ==
    /\ pc = Steps[1]
    /\ logs_dir = None
    /\ base_url_map = None
    /\ idx = 0
    /\ stderr = << >>
    /\ exit_code = None
    /\ result = None

\* Args::parse() has returned: color and raw conflict, -m has at least one value.
Init ==
    /\ \E f \in Flags, d \in {0, 1, 500000}, host \in {None, Some("tcp://h")},
          dirs \in {<<None, None>>, <<None, Some("/home/u")>>, <<Some("/tmp/x"), Some("/home/u")>>},
          map \in {None} \cup {Some(q) : q \in SeqsUpTo(SampleTokens, MaxTokens) \ {<< >>}} :
          /\ args = MkArgs(f, d, host, dirs[1], map)
          /\ home_dir = dirs[2]
    /\ env \in [{ENV_KEY} -> EnvVar]
    /\ Started

\* One -m token drawn from every concatenation of at most MaxPieces pieces.
InitParse ==
    /\ \E d \in {0, DefaultInterval},
          map \in {None} \cup {Some(<<t>>) : t \in TokensUpTo(MaxPieces)} :
          args = MkArgs(DefaultFlags, d, None, None, map)
    /\ home_dir = Some("/home/u")
    /\ env \in [{ENV_KEY} -> {e \in EnvVar : e.state # "not_unicode"}]
    /\ Started

\* --------------------------------------------------------------- actions
process_exit(msg) ==
    /\ stderr' = Append(stderr, msg)
    /\ exit_code' = Some(1)
    /\ pc' = "exited"

LogsDir ==
    /\ pc = "logs_dir"
    /\ logs_dir' = resolve_logs_dir(args.save_dir, home_dir)
    /\ pc' = Following("logs_dir")
    /\ UNCHANGED <<args, env, home_dir, base_url_map, idx, stderr, exit_code, result>>

MapAbsent ==
    /\ pc = "base_url_map"
    /\ args.base_url_map = None
    /\ base_url_map' = None
    /\ pc' = Following("base_url_map")
    /\ UNCHANGED <<args, env, home_dir, logs_dir, idx, stderr, exit_code, result>>

\* One iteration of b.iter().map(parse_base_url_map_input).collect(), token accepted.
MapTokenOk ==
    /\ pc = "base_url_map"
    /\ args.base_url_map # None
    /\ idx < Len(args.base_url_map[1])
    /\ LET r == parse_base_url_map_input(args.base_url_map[1][idx + 1])
           acc == IF base_url_map = None THEN << >> ELSE base_url_map[1]
       IN /\ r.exit = None
          /\ base_url_map' = Some(collect(acc, r.value[1]))
          /\ idx' = idx + 1
          /\ pc' = IF idx + 1 = Len(args.base_url_map[1])
                   THEN Following("base_url_map") ELSE pc
    /\ UNCHANGED <<args, env, home_dir, logs_dir, stderr, exit_code, result>>

\* One iteration, token rejected: error!(..) then process::exit(1).
MapTokenExit ==
    /\ pc = "base_url_map"
    /\ args.base_url_map # None
    /\ idx < Len(args.base_url_map[1])
    /\ LET r == parse_base_url_map_input(args.base_url_map[1][idx + 1])
       IN /\ r.exit # None
          /\ idx' = idx + 1
          /\ process_exit(r.error[1])
    /\ UNCHANGED <<args, env, home_dir, logs_dir, base_url_map, result>>

IntervalExit ==
    /\ pc = "docker_interval"
    /\ interval_invalid(args.docker_interval)
    /\ process_exit(IntervalMsg)
    /\ UNCHANGED <<args, env, home_dir, logs_dir, base_url_map, idx, result>>

IntervalOk ==
    /\ pc = "docker_interval"
    /\ ~interval_invalid(args.docker_interval)
    /\ pc' = Following("docker_interval")
    /\ UNCHANGED <<args, env, home_dir, logs_dir, base_url_map, idx, stderr, exit_code, result>>

Build ==
    /\ pc = "Self"
    /\ result' = Some(Self(args, logs_dir, base_url_map, check_if_in_container(env)))
    /\ pc' = Following("Self")
    /\ UNCHANGED <<args, env, home_dir, logs_dir, base_url_map, idx, stderr, exit_code>>

Next ==
    \/ LogsDir
    \/ MapAbsent
    \/ MapTokenOk
    \/ MapTokenExit
    \/ IntervalExit
    \/ IntervalOk
    \/ Build

Spec == Init /\ [][Next]_vars

SpecParse == InitParse /\ [][Next]_vars

\* ------------------------------------------------------------ properties
\* The -m grammar stated on the token text itself, independently of splitn.
Keywords == {KwName, KwImage, KwLabel}

SemiPositions(t) == {i \in 1..Len(t) : t[i] = ";"}

NumSemis(t) == Cardinality(SemiPositions(t))

NthSemi(t, n) ==
    CHOOSE i \in SemiPositions(t) : Cardinality({j \in SemiPositions(t) : j <= i}) = n

FirstPart(t) == IF NumSemis(t) = 0 THEN t ELSE SubSeq(t, 1, NthSemi(t, 1) - 1)

SecondPart(t) == SubSeq(t, NthSemi(t, 1) + 1, NthSemi(t, 2) - 1)

Remainder(t) == SubSeq(t, NthSemi(t, 2) + 1, Len(t))

WellFormed(t) == FirstPart(t) \in Keywords /\ NumSemis(t) >= 2

ExpectedMapping(t) ==
    [name |-> IF FirstPart(t) = KwName THEN Some(SecondPart(t)) ELSE None,
     image |-> IF FirstPart(t) = KwImage THEN Some(SecondPart(t)) ELSE None,
     label |-> IF FirstPart(t) = KwLabel THEN Some(SecondPart(t)) ELSE None,
     base_url |-> Remainder(t)]

Tokens == IF args.base_url_map = None THEN << >> ELSE args.base_url_map[1]

Mapped == IF base_url_map = None THEN << >> ELSE base_url_map[1]

\* Token i was handed to the parser and the parser returned a mapping for it.
Accepted(i) == i <= idx /\ i <= Len(Mapped)

\* Token i was handed to the parser and the parser terminated the process.
Rejected(i) == i = idx /\ Len(Mapped) = i - 1 /\ pc = "exited" /\ exit_code = Some(1)

Terminal == pc \in {"returned", "exited"}

\* C1: a token with a selector keyword before the first ';' and at least two
\* ';' is parsed without terminating the process into a mapping whose only
\* selector field is the keyword's, holding the text between the first and the
\* second ';', and whose base_url is everything after the second ';'.
C1_ValidTokenMapping ==
    \A i \in 1..idx :
        WellFormed(Tokens[i]) =>
            /\ Accepted(i)
            /\ ~Rejected(i)
            /\ Mapped[i] = ExpectedMapping(Tokens[i])

C1_Witness ==
    \E i \in 1..idx :
        /\ WellFormed(Tokens[i])
        /\ NumSemis(Tokens[i]) >= 3
        /\ Accepted(i)
        /\ \E k \in 1..Len(Mapped[i].base_url) : Mapped[i].base_url[k] = ";"

\* C2 as stated: a token that is a selector keyword with no trailing parts
\* terminates the process with the URL message.
C2_KeywordAloneUrlMessage ==
    \A i \in 1..idx :
        Tokens[i] \in Keywords => (Rejected(i) /\ stderr = <<UrlMsg>>)

\* C2 amended: a token that is a selector keyword with no trailing parts
\* already fails the first check and terminates the process with the
\* selector-format message; the URL message is produced only for a selector
\* keyword followed by exactly one further part.
C2_KeywordAloneTypeMessage ==
    \A i \in 1..idx :
        /\ Tokens[i] \in Keywords => (Rejected(i) /\ stderr = <<TypeMsg>>)
        /\ (Rejected(i) /\ stderr = <<UrlMsg>>) =>
              (FirstPart(Tokens[i]) \in Keywords /\ NumSemis(Tokens[i]) = 1)

C2_Witness ==
    \E i \in 1..idx : Tokens[i] \in Keywords /\ Rejected(i) /\ stderr = <<TypeMsg>>

\* C3: a token whose first part is not a selector keyword terminates the
\* process with status 1 and the selector-format message, however many parts
\* follow, and never with the URL message.
C3_UnknownSelectorTypeMessage ==
    \A i \in 1..idx :
        FirstPart(Tokens[i]) \notin Keywords =>
            /\ Rejected(i)
            /\ exit_code = Some(1)
            /\ stderr = <<TypeMsg>>
            /\ stderr # <<UrlMsg>>

C3_Witness ==
    \E i \in 1..idx :
        /\ FirstPart(Tokens[i]) \notin Keywords
        /\ NumSemis(Tokens[i]) >= 2
        /\ SecondPart(Tokens[i]) \in Keywords
        /\ Rejected(i)
        /\ stderr = <<TypeMsg>>

\* C4: a token keyword;value with exactly one ';' terminates the process with
\* status 1 and the missing-URL message, which is not the selector-format
\* message, and no mapping is produced for it.
C4_MissingUrlMessage ==
    \A i \in 1..idx :
        (FirstPart(Tokens[i]) \in Keywords /\ NumSemis(Tokens[i]) = 1) =>
            /\ Rejected(i)
            /\ exit_code = Some(1)
            /\ stderr = <<UrlMsg>>
            /\ stderr # <<TypeMsg>>
            /\ Len(Mapped) < i
            /\ result = None

C4_Witness ==
    \E i \in 1..idx :
        /\ FirstPart(Tokens[i]) \in Keywords
        /\ NumSemis(Tokens[i]) = 1
        /\ Rejected(i)
        /\ stderr = <<UrlMsg>>

SelectorsSet(m) == {f \in {"name", "image", "label"} : m[f] # None}

\* C6: a run ends either with status 1 after exactly one diagnostic and no
\* CliArgs (some token malformed or docker_interval 0), or with a CliArgs and
\* no diagnostic, never both; a produced CliArgs has docker_interval > 0 and
\* every base_url_map entry has exactly one selector and a base_url.
C6_AllOrNothing ==
    /\ Len(stderr) <= 1
    /\ (exit_code # None) = (pc = "exited")
    /\ (result # None) = (pc = "returned")
    /\ pc = "exited" =>
          /\ exit_code = Some(1)
          /\ Len(stderr) = 1
          /\ result = None
          /\ \/ args.docker_interval = 0
             \/ \E i \in 1..Len(Tokens) : ~WellFormed(Tokens[i])
    /\ pc # "exited" => stderr = << >>
    /\ pc = "returned" =>
          /\ args.docker_interval > 0
          /\ \A i \in 1..Len(Tokens) : WellFormed(Tokens[i])
          /\ result[1].docker_interval > 0
          /\ result[1].base_url_map # None =>
                \A i \in 1..Len(result[1].base_url_map[1]) :
                    /\ Cardinality(SelectorsSet(result[1].base_url_map[1][i])) = 1
                    /\ DOMAIN result[1].base_url_map[1][i]
                          = {"name", "image", "label", "base_url"}

C6_Witness ==
    /\ pc = "exited"
    /\ Len(stderr) = 1
    /\ result = None
    /\ Len(Mapped) = 1
    /\ Len(Tokens) = 2

C8_OrderPreserved ==
    /\ \A i \in 1..Len(Mapped) :
          /\ i <= Len(Tokens)
          /\ Mapped[i] = parse_base_url_map_input(Tokens[i]).value[1]
    /\ pc = "returned" =>
          /\ args.base_url_map = None => result[1].base_url_map = None
          /\ args.base_url_map # None =>
                /\ result[1].base_url_map # None
                /\ result[1].base_url_map # Some(<< >>)
                /\ Len(result[1].base_url_map[1]) = Len(Tokens)
                /\ \A i \in 1..Len(Tokens) :
                      result[1].base_url_map[1][i]
                          = parse_base_url_map_input(Tokens[i]).value[1]
    /\ (Terminal /\ args.docker_interval > 0
          /\ \A i \in 1..Len(Tokens) : WellFormed(Tokens[i])) => pc = "returned"

C8_Witness ==
    /\ pc = "returned"
    /\ Len(Tokens) = 2
    /\ Tokens[1] # Tokens[2]
    /\ Len(result[1].base_url_map[1]) = 2
    /\ result[1].base_url_map[1][1] # result[1].base_url_map[1][2]

\* C9: the probe never terminates the process, and in_container is true
\* exactly when the variable is set to the marker value, whatever the flags.
C9_InContainer ==
    /\ pc = "Self" => (exit_code = None /\ stderr = << >>)
    /\ \A k \in 1..Len(stderr) : stderr[k] \in {TypeMsg, UrlMsg, IntervalMsg}
    /\ result # None =>
          result[1].in_container
              = (env[ENV_KEY].state = "unicode" /\ env[ENV_KEY].value = ENV_VALUE)

C9_Witness ==
    /\ result # None
    /\ env[ENV_KEY].state = "unicode"
    /\ env[ENV_KEY].value # ENV_VALUE
    /\ ~result[1].in_container
    /\ args.gui

Malformed == {i \in 1..Len(Tokens) : parse_base_url_map_input(Tokens[i]).exit # None}

FirstMalformed == CHOOSE i \in Malformed : \A j \in Malformed : i <= j

\* C10: tokens are parsed in input order before docker_interval is checked;
\* the one diagnostic is that of the first malformed token, no later token is
\* parsed, and the "-d" diagnostic appears only when every token is well
\* formed (or -m is absent) and docker_interval is 0.
C10_FirstFailureWins ==
    /\ pc \in {"docker_interval", "Self", "returned"} =>
          (idx = Len(Tokens) /\ Len(Mapped) = Len(Tokens))
    /\ idx <= Len(Mapped) + 1
    /\ pc = "exited" =>
          IF Malformed # {}
          THEN /\ idx = FirstMalformed
               /\ Len(Mapped) = FirstMalformed - 1
               /\ stderr = <<parse_base_url_map_input(Tokens[FirstMalformed]).error[1]>>
               /\ stderr[1] \in {TypeMsg, UrlMsg}
          ELSE /\ args.docker_interval = 0
               /\ stderr = <<IntervalMsg>>
               /\ idx = Len(Tokens)

C10_Witness ==
    /\ pc = "exited"
    /\ args.docker_interval = 0
    /\ Cardinality(Malformed) = 2
    /\ idx = 1
    /\ stderr # <<parse_base_url_map_input(Tokens[2]).error[1]>>

====
